---- MODULE Spec2Model ----
(***************************************************************************)
(* Model of the Tlayuda derive macro (src/src/lib.rs).                     *)
(*                                                                         *)
(* Two layers are modelled:                                                *)
(*   - generation time: entry_point, get_fields, generate_output_tokens,   *)
(*     which turn an ItemStruct into the definition of a builder type;     *)
(*   - build time: the operations of the builder that the quote! block of  *)
(*     entry_point emits (new, set_<field>, with_index, take_index, build, *)
(*     build_vec), interpreted over the definition produced above.         *)
(***************************************************************************)
EXTENDS Integers, Sequences, FiniteSets, TLC

VARIABLES
    item_struct,      \* the parsed derive input (syn::ItemStruct)
    fields,           \* entry_point's `fields`: Vec<FieldInfo>
    partials,         \* OutputTokenPartials returned by generate_output_tokens
    output,           \* the token stream entry_point returns (the builder definition)
    pc,               \* position inside entry_point
    target,           \* the build configuration the generated code is compiled for
    builder,          \* the live builder value (Tlayuda<Name>Builder)
    result,           \* what the last builder operation returned
    used,             \* indices take_index handed out during the last operation
    status,           \* "none" | "ready" | "panicked"
    hist              \* caller-side bookkeeping of what was asked of the builder

vars == <<item_struct, fields, partials, output, pc, target, builder, result, used, status, hist>>

genVars == <<item_struct, fields, partials, output, pc>>
runVars == <<target, builder, result, used, status, hist>>

(***************************************************************************)
(* Bounds of the model.                                                    *)
(***************************************************************************)
MaxFields == 2        \* fields of an input struct
MaxAttrs == 2         \* attributes on the fields of an input struct, in all
MaxBuilds == 3        \* instances one builder produces in a run
MaxCalls == 2         \* set_<field> and with_index calls in a run

(***************************************************************************)
(* Generic helpers.                                                        *)
(***************************************************************************)
None == [none |-> TRUE]

SeqsUpTo(S, n) == UNION { [1..k -> S] : k \in 0..n }

MapSeq(s, Op(_)) == [k \in 1..Len(s) |-> Op(s[k])]

\* Op applied to the value of v, with v evaluated once
Let(v, Op(_)) == CHOOSE r \in { Op(x) : x \in {v} } : TRUE

(***************************************************************************)
(* syn data: types, attributes, fields.                                    *)
(***************************************************************************)
\* syn::Type: Type::Path carries its path segments; `args` says whether the
\* last segment has generic arguments (then Path::get_ident is None).
PathTy(segs, args) == [shape |-> "Path", segs |-> segs, args |-> args]
NonPathTy(shape) == [shape |-> shape, segs |-> <<>>, args |-> FALSE]

\* syn::Attribute, by what Attribute::parse_meta returns for it.
Attr(parse, meta, ident) == [parse |-> parse, meta |-> meta, ident |-> ident]
IgnoreMarker == Attr("Ok", "Path", "tlayuda_ignore")         \* #[tlayuda_ignore]
OtherMarker == Attr("Ok", "Path", "other")                   \* #[other]
IgnoreList == Attr("Ok", "List", "tlayuda_ignore")           \* #[tlayuda_ignore(x)]
Unparsable == Attr("Err", "None", "tlayuda_ignore")          \* #[tlayuda_ignore x y]

\* Field::ident is None for the fields of a tuple struct.
NoIdent == ""
Field(ident, ty, attrs) == [ident |-> ident, ty |-> ty, attrs |-> attrs]

FieldInfo(identifier, field_type, is_ignored) ==
    [identifier |-> identifier, field_type |-> field_type, is_ignored |-> is_ignored]

(***************************************************************************)
(* get_fields                                                              *)
(***************************************************************************)
\* The closure handed to attrs.iter().any(..): Ok(Meta::Path) named tlayuda_ignore.
AttrMarksIgnoreLoose(attribute) == attribute.ident = "tlayuda_ignore"

AttrMarksIgnore(attribute) ==
    IF attribute.parse = "Ok"
    THEN IF attribute.meta = "Path" THEN attribute.ident = "tlayuda_ignore" ELSE FALSE
    ELSE FALSE

is_ignored(attrs) == \E k \in 1..Len(attrs) : AttrMarksIgnore(attrs[k])

HasIdent(x) == x.ident # NoIdent

get_fields(s) ==
    LET named == SelectSeq(s.fields, HasIdent)
    IN [k \in 1..Len(named) |->
            FieldInfo(named[k].ident, named[k].ty, is_ignored(named[k].attrs))]

(***************************************************************************)
(* generate_output_tokens                                                  *)
(***************************************************************************)
IntegerTypes == {"i8", "i16", "i32", "u8", "u16", "u32", "i64", "i128", "isize",
                 "u64", "u128", "usize"}
NumericTypes == IntegerTypes \cup {"f32", "f64"}

\* `identity`: (last segment's ident, tokens naming the type)
TypeIsPath(ty) == ty.shape = "Path"
IdentityName(ty) == ty.segs[Len(ty.segs)]

\* The closure chosen by the match on identity.0 (lines 164-180).
DefaultGenerator(field) ==
    LET n == IdentityName(field.field_type)
    IN CASE n = "String"   -> [kind |-> "format", name |-> field.identifier]
         [] n = "OsString" -> [kind |-> "format", name |-> field.identifier]
         [] n = "char"     -> [kind |-> "from_digit"]
         [] n = "bool"     -> [kind |-> "false"]
         [] n \in NumericTypes -> [kind |-> "cast", ty |-> n]
         [] OTHER          -> [kind |-> "nested", ty |-> n]

IsNotIgnored(f) == ~f.is_ignored
IsIgnored(f) == f.is_ignored

SetterOf(field) ==
    [func_name |-> "set_" \o field.identifier,
     identifier |-> field.identifier,
     field_type |-> field.field_type]

field_setter_functions(fs) == MapSeq(SelectSeq(fs, IsNotIgnored), SetterOf)

\* todo!("Type {:?} not supported") is reached for a field whose type is not Type::Path
InitializerPanicsGeneratedOnly(fs) ==
    \E k \in 1..Len(fs) : ~fs[k].is_ignored /\ ~TypeIsPath(fs[k].field_type)

InitializerPanics(fs) == \E k \in 1..Len(fs) : ~TypeIsPath(fs[k].field_type)

InitializerOf(field) ==
    IF field.is_ignored
    THEN [identifier |-> field.identifier, kind |-> "param"]
    ELSE [identifier |-> field.identifier, kind |-> "closure",
          f |-> DefaultGenerator(field)]

field_builder_intializers(fs) == MapSeq(fs, InitializerOf)

DeclarationOf(field) ==
    IF field.is_ignored
    THEN [identifier |-> field.identifier, slot |-> "fixed", ty |-> field.field_type]
    ELSE [identifier |-> field.identifier, slot |-> "generator", ty |-> field.field_type]

field_declarations(fs) == MapSeq(fs, DeclarationOf)

generate_output_tokens(fs) ==
    IF InitializerPanics(fs)
    THEN [panic |-> TRUE]
    ELSE [panic |-> FALSE,
          field_declarations |-> field_declarations(fs),
          field_builder_intializers |-> field_builder_intializers(fs),
          field_setter_functions |-> field_setter_functions(fs)]

(***************************************************************************)
(* entry_point: the assembled builder definition                           *)
(***************************************************************************)
ParamOf(f) == [identifier |-> f.identifier, ty |-> f.field_type]
IdentOf(f) == f.identifier

builder_parameters(fs) == MapSeq(SelectSeq(fs, IsIgnored), ParamOf)

AssembleOutput(s, fs, p) ==
    [source_struct_name |-> s.ident,
     inner_builder_name |-> "Tlayuda" \o s.ident \o "Builder",
     field_declarations |-> p.field_declarations,
     builder_parameters |-> builder_parameters(fs),
     field_builder_intializers |-> p.field_builder_intializers,
     field_setter_functions |-> p.field_setter_functions,
     ignored_fields |-> MapSeq(SelectSeq(fs, IsIgnored), IdentOf),
     fields |-> MapSeq(SelectSeq(fs, IsNotIgnored), IdentOf)]

\* entry_point as one function: None when the macro panics.
Derive(s) ==
    LET fs == get_fields(s)
        p == generate_output_tokens(fs)
    IN IF p.panic THEN None ELSE AssembleOutput(s, fs, p)

(***************************************************************************)
(* The program the generated code is compiled into: three record types,    *)
(* each deriving Tlayuda.                                                  *)
(***************************************************************************)
LeafStruct ==
    [ident |-> "Leaf", kind |-> "Named",
     fields |-> << Field("n", PathTy(<<"u8">>, FALSE), <<>>),
                   Field("c", PathTy(<<"char">>, FALSE), <<>>) >>]

InnerStruct ==
    [ident |-> "Inner", kind |-> "Named",
     fields |-> << Field("value", PathTy(<<"u32">>, FALSE), <<>>),
                   Field("label", PathTy(<<"String">>, FALSE), <<>>),
                   Field("leaf", PathTy(<<"Leaf">>, FALSE), <<>>) >>]

OuterStruct ==
    [ident |-> "Outer", kind |-> "Named",
     fields |-> << Field("name", PathTy(<<"String">>, FALSE), <<>>),
                   Field("id", PathTy(<<"char">>, FALSE), <<OtherMarker>>),
                   Field("inner", PathTy(<<"crate", "Inner">>, FALSE), <<>>),
                   Field("tag", PathTy(<<"String">>, FALSE), <<IgnoreMarker>>) >>]

\* what the derive emitted for each type of the program
LeafBuilder == Derive(LeafStruct)
InnerBuilder == Derive(InnerStruct)
OuterBuilder == Derive(OuterStruct)

\* name resolution of `#identity_tokens::tlayuda()`
Derived(n) ==
    CASE n = "Leaf" -> LeafBuilder
      [] n = "Inner" -> InnerBuilder
      [] n = "Outer" -> OuterBuilder

(***************************************************************************)
(* usize arithmetic.  A usize is kept as its 16-bit limbs, least           *)
(* significant first: 2 limbs on a 32-bit target, 4 on a 64-bit one.       *)
(***************************************************************************)
LimbBase == 65536
LimbMax == LimbBase - 1

Targets == [overflow_checks : BOOLEAN, pointer_width : {32, 64}]

NLimbs == target.pointer_width \div 16

Small(v) == [k \in 1..NLimbs |-> IF k = 1 THEN v ELSE 0]
UsizeMax == [k \in 1..NLimbs |-> LimbMax]
UsizeMaxLess1 == [k \in 1..NLimbs |-> IF k = 1 THEN LimbMax - 1 ELSE LimbMax]

IsZero(x) == \A k \in 1..Len(x) : x[k] = 0

RECURSIVE IncLimbs(_)
IncLimbs(x) ==
    IF x = <<>> THEN [val |-> <<>>, carry |-> TRUE]
    ELSE IF Head(x) < LimbMax
         THEN [val |-> <<Head(x) + 1>> \o Tail(x), carry |-> FALSE]
         ELSE LET r == IncLimbs(Tail(x))
              IN [val |-> <<0>> \o r.val, carry |-> r.carry]

RECURSIVE DecLimbs(_)
DecLimbs(x) ==
    IF x = <<>> THEN [val |-> <<>>, carry |-> TRUE]
    ELSE IF Head(x) > 0
         THEN [val |-> <<Head(x) - 1>> \o Tail(x), carry |-> FALSE]
         ELSE LET r == DecLimbs(Tail(x))
              IN [val |-> <<LimbMax>> \o r.val, carry |-> r.carry]

\* `a + 1` and `a - 1` on usize: a panic with overflow checks on (the debug
\* profile), two's complement wrapping with them off (the release profile).
UsizeAdd1(a) ==
    LET r == IncLimbs(a)
    IN [panic |-> r.carry /\ target.overflow_checks, val |-> r.val]

UsizeSub1(a) ==
    LET r == DecLimbs(a)
    IN [panic |-> r.carry /\ target.overflow_checks, val |-> r.val]

\* division of a limb sequence by ten: quotient limbs and remainder
RECURSIVE DivTen(_)
DivTen(x) ==
    IF x = <<>> THEN [q |-> <<>>, r |-> 0]
    ELSE LET hi == DivTen(Tail(x))
             cur == hi.r * LimbBase + Head(x)
         IN [q |-> <<cur \div 10>> \o hi.q, r |-> cur % 10]

DigitChars == <<"0", "1", "2", "3", "4", "5", "6", "7", "8", "9">>

RECURSIVE DecimalDigits(_)
DecimalDigits(x) ==
    IF IsZero(x) THEN ""
    ELSE LET d == DivTen(x) IN DecimalDigits(d.q) \o DigitChars[d.r + 1]

\* Display for usize, as used by format!("{}", i)
Decimal(x) == IF IsZero(x) THEN "0" ELSE DecimalDigits(x)

(***************************************************************************)
(* The default closures' bodies (lines 165-178).                           *)
(***************************************************************************)
\* `i as u32`: the low 32 bits
AsU32(i) == SubSeq(i, 1, 2)

\* std::char::from_digit(num, 10): Some(digit) when num < 10, else None
from_digit(num) ==
    IF num[2] = 0 /\ num[1] < 10
    THEN [some |-> TRUE, ch |-> DigitChars[num[1] + 1]]
    ELSE [some |-> FALSE]

unwrap_or(opt, default) == IF opt.some THEN opt.ch ELSE default

BitsOf(ty) ==
    CASE ty \in {"i8", "u8"} -> 8
      [] ty \in {"i16", "u16"} -> 16
      [] ty \in {"i32", "u32"} -> 32
      [] ty \in {"i64", "u64"} -> 64
      [] ty \in {"i128", "u128"} -> 128
      [] ty \in {"isize", "usize"} -> target.pointer_width

\* `i as T` for an integer type T: the low BitsOf(T) bits of i, zero-extended
\* when T is wider than usize.  The result is kept as T's bit pattern.
CastInt(i, ty) ==
    IF BitsOf(ty) = 8
    THEN [ty |-> ty, bits |-> <<i[1] % 256>>]
    ELSE [ty |-> ty,
          bits |-> [k \in 1..(BitsOf(ty) \div 16) |-> IF k <= Len(i) THEN i[k] ELSE 0]]

\* `i as f32`, `i as f64`: the float nearest to i, kept symbolically
CastFloat(i, ty) == [ty |-> ty, nearest |-> i]

Cast(i, ty) == IF ty \in IntegerTypes THEN CastInt(i, ty) ELSE CastFloat(i, ty)

(***************************************************************************)
(* Closures a caller hands to a setter (F: Fn(usize) -> T): one that       *)
(* ignores its argument and one that depends on it.                        *)
(***************************************************************************)
UserGens == { [kind |-> "user", id |-> "konst"], [kind |-> "user", id |-> "low_bit"] }

UserFn(id, i) ==
    IF id = "konst" THEN [user |-> "konst"] ELSE [user |-> "low_bit", bit |-> i[1] % 2]

(***************************************************************************)
(* The generated builder: new, setters, with_index, take_index, build,     *)
(* build_vec (lines 42-84), interpreted over a builder definition `def`.   *)
(***************************************************************************)
Idents(decls) == { decls[k].identifier : k \in 1..Len(decls) }
InitFor(def, id) ==
    CHOOSE x \in { def.field_builder_intializers[k] :
                     k \in 1..Len(def.field_builder_intializers) } : x.identifier = id

\* `#identifier: #identifier` for an ignored field, `#identifier: Box::new(#f)` otherwise
SlotInitDefaulted(init, args) ==
    IF init.kind = "param" THEN "" ELSE init.f

SlotInit(init, args) ==
    IF init.kind = "param" THEN args[init.identifier] ELSE init.f

new(def, args) ==
    [index |-> Small(0),
     slots |-> [id \in Idents(def.field_declarations) |-> SlotInit(InitFor(def, id), args)]]

\* TypeName::tlayuda(..) forwards to new(..)
tlayuda(def, args) == new(def, args)

NoArgs == [x \in {} |-> ""]

\* set_<field>: self.#identifier = Box::new(f)
set_field_keep(b, id, f) == b

set_field(b, id, f) == [b EXCEPT !.slots[id] = f]

with_index(b, index) == [b EXCEPT !.index = index]

\* self.index = self.index + 1; self.index - 1
take_index(b) ==
    LET a == UsizeAdd1(b.index)
    IN IF a.panic THEN [panic |-> TRUE, builder |-> b]
       ELSE LET b1 == [b EXCEPT !.index = a.val]
                d == UsizeSub1(b1.index)
            IN IF d.panic THEN [panic |-> TRUE, builder |-> b1]
               ELSE [panic |-> FALSE, builder |-> b1, i |-> d.val]

RECURSIVE build(_, _)
RECURSIVE Apply(_, _)
RECURSIVE NestedCall(_, _)

\* |i| #identity_tokens::tlayuda().with_index(i).build()
NestedCallUnseeded(ty, i) ==
    LET def == Derived(ty) IN build(tlayuda(def, NoArgs), def)

NestedCall(ty, i) ==
    LET def == Derived(ty) IN build(with_index(tlayuda(def, NoArgs), i), def)

\* self.#fields.as_mut()(i)
Apply(f, i) ==
    CASE f.kind = "format" -> [panic |-> FALSE, value |-> f.name \o Decimal(i)]
      [] f.kind = "from_digit" ->
            [panic |-> FALSE, value |-> unwrap_or(from_digit(AsU32(i)), "a")]
      [] f.kind = "false" -> [panic |-> FALSE, value |-> FALSE]
      [] f.kind = "cast" -> [panic |-> FALSE, value |-> Cast(i, f.ty)]
      [] f.kind = "nested" -> NestedCall(f.ty, i)
      [] f.kind = "user" -> [panic |-> FALSE, value |-> UserFn(f.id, i)]

SeqToSet(s) == { s[k] : k \in 1..Len(s) }

\* #identifier: self.#identifier.clone()
CloneFixed(b, id) == b.slots[id]

build(b, def) ==
    Let(take_index(b), LAMBDA t :
      IF t.panic THEN [panic |-> TRUE, builder |-> t.builder]
      ELSE Let([id \in SeqToSet(def.fields) |-> Apply(t.builder.slots[id], t.i)], LAMBDA gen :
             IF \E id \in SeqToSet(def.fields) : gen[id].panic
             THEN [panic |-> TRUE, builder |-> t.builder]
             ELSE [panic |-> FALSE, builder |-> t.builder, i |-> t.i,
                   value |-> [id \in SeqToSet(def.ignored_fields) \cup SeqToSet(def.fields) |->
                                IF id \in SeqToSet(def.ignored_fields)
                                THEN CloneFixed(t.builder, id)
                                ELSE gen[id].value]]))

\* std::iter::repeat_with(|| self.build()).take(count).collect():
\* Take::next calls the closure only while its remaining count is not zero.
RECURSIVE TakeCollect(_, _, _, _, _)
TakeCollect(b, def, n, acc, idx) ==
    IF n = 0 THEN [panic |-> FALSE, builder |-> b, value |-> acc, used |-> idx]
    ELSE Let(build(b, def), LAMBDA r :
           IF r.panic
           THEN [panic |-> TRUE, builder |-> r.builder, value |-> acc, used |-> idx]
           ELSE TakeCollect(r.builder, def, n - 1, Append(acc, r.value), Append(idx, r.i)))

build_vec(b, def, count) == TakeCollect(b, def, count, <<>>, <<>>)

(***************************************************************************)
(* Inputs.                                                                 *)
(***************************************************************************)
TypeInputs ==
    { PathTy(<<"String">>, FALSE), PathTy(<<"crate", "Inner">>, FALSE), NonPathTy("Tuple") }

AttrInputs == { IgnoreMarker, OtherMarker, IgnoreList, Unparsable }

FieldNames == <<"a", "b", "c", "d", "e">>

\* the attribute lists of n fields, at most `budget` attributes in all
RECURSIVE AttrLists(_, _)
AttrLists(n, budget) ==
    IF n = 0 THEN { <<>> }
    ELSE UNION { { <<a>> \o rest : rest \in AttrLists(n - 1, budget - Len(a)) } :
                   a \in SeqsUpTo(AttrInputs, budget) }

FieldsInputs(kind, n) ==
    { [k \in 1..n |->
         Field(IF kind = "Named" THEN FieldNames[k] ELSE NoIdent, tys[k], attrs[k])] :
        tys \in [1..n -> TypeInputs], attrs \in AttrLists(n, MaxAttrs) }

IndexInputs ==
    { Small(0), Small(9), UsizeMaxLess1, UsizeMax }
    \cup (IF target.pointer_width = 64 THEN { <<5, 0, 1, 0>> } ELSE {})

TagInputs == { "fixed-tag", "other-tag" }

(***************************************************************************)
(* Initial states.                                                         *)
(***************************************************************************)
InitRun ==
    /\ builder = None
    /\ result = None
    /\ used = <<>>
    /\ status = "none"
    /\ hist = None

InitEntry ==
    /\ fields = None
    /\ partials = None
    /\ output = None
    /\ pc = "start"

\* the program of Outer, Inner and Leaf, compiled for any target
Init ==
    /\ item_struct = OuterStruct
    /\ InitEntry
    /\ target \in Targets
    /\ InitRun

\* the macro alone, over every bounded input struct
\* syn::Fields is Named (every field has an ident) or Unnamed (none has)
InitGen ==
    /\ \E kind \in {"Named", "Unnamed"}, n \in 0..MaxFields :
         \E fs \in FieldsInputs(kind, n) :
            item_struct = [ident |-> "S", kind |-> kind, fields |-> fs]
    /\ InitEntry
    /\ target = [overflow_checks |-> TRUE, pointer_width |-> 64]
    /\ InitRun

(***************************************************************************)
(* entry_point, step by step.                                              *)
(***************************************************************************)
GetFields ==
    /\ pc = "start"
    /\ fields' = get_fields(item_struct)
    /\ pc' = "fields"
    /\ UNCHANGED <<item_struct, partials, output>>
    /\ UNCHANGED runVars

GenerateOutputTokens ==
    /\ pc = "fields"
    /\ LET p == generate_output_tokens(fields)
       IN IF p.panic
          THEN pc' = "aborted" /\ partials' = partials
          ELSE pc' = "tokens" /\ partials' = p
    /\ UNCHANGED <<item_struct, fields, output>>
    /\ UNCHANGED runVars

EntryPointOutput ==
    /\ pc = "tokens"
    /\ output' = AssembleOutput(item_struct, fields, partials)
    /\ pc' = "done"
    /\ UNCHANGED <<item_struct, fields, partials>>
    /\ UNCHANGED runVars

(***************************************************************************)
(* The caller's operations on one builder.                                 *)
(***************************************************************************)
SetterIdents == { output.field_setter_functions[k].identifier :
                    k \in 1..Len(output.field_setter_functions) }
ParamIdents == { output.builder_parameters[k].identifier :
                   k \in 1..Len(output.builder_parameters) }

Note(op, arg, pre) ==
    [hist EXCEPT !.op = op, !.arg = arg, !.pre = pre, !.after_with_index = (hist.op = "with_index")]

New ==
    /\ pc = "done"
    /\ status = "none"
    /\ \E args \in [ParamIdents -> TagInputs] :
         /\ builder' = tlayuda(output, args)
         /\ hist' = [ctor_args |-> args, last_set |-> Small(0), built_since |-> 0,
                     builds |-> 0, calls |-> 0,
                     set_gens |-> [id \in SetterIdents |-> None],
                     set_count |-> [id \in SetterIdents |-> 0],
                     op |-> "new", arg |-> None, pre |-> None, after_with_index |-> FALSE]
    /\ status' = "ready"
    /\ result' = [op |-> "new"]
    /\ used' = <<>>
    /\ UNCHANGED <<target>>
    /\ UNCHANGED genVars

Setter ==
    /\ status = "ready"
    /\ hist.calls < MaxCalls
    /\ \E id \in SetterIdents, f \in UserGens :
         /\ builder' = set_field(builder, id, f)
         /\ hist' = [Note("setter", id, builder) EXCEPT !.calls = @ + 1, !.set_gens[id] = f,
                                                         !.set_count[id] = @ + 1]
    /\ result' = [op |-> "setter"]
    /\ used' = <<>>
    /\ UNCHANGED <<target, status>>
    /\ UNCHANGED genVars

WithIndex ==
    /\ status = "ready"
    /\ hist.calls < MaxCalls
    /\ \E n \in IndexInputs :
         /\ builder' = with_index(builder, n)
         /\ hist' = [Note("with_index", n, None) EXCEPT !.calls = @ + 1,
                                                         !.last_set = n, !.built_since = 0]
    /\ result' = [op |-> "with_index"]
    /\ used' = <<>>
    /\ UNCHANGED <<target, status>>
    /\ UNCHANGED genVars

Build ==
    /\ status = "ready"
    /\ hist.builds < MaxBuilds
    /\ \E r \in { build(builder, output) } :
          /\ builder' = r.builder
          /\ status' = IF r.panic THEN "panicked" ELSE "ready"
          /\ result' = IF r.panic THEN [op |-> "build", panic |-> TRUE]
                       ELSE [op |-> "build", panic |-> FALSE, value |-> <<r.value>>]
          /\ used' = IF r.panic THEN <<>> ELSE <<r.i>>
          /\ hist' = IF r.panic THEN Note("build", None, builder)
                     ELSE [Note("build", None, builder) EXCEPT !.builds = @ + 1,
                                                                !.built_since = @ + 1]
    /\ UNCHANGED <<target>>
    /\ UNCHANGED genVars

BuildVec ==
    /\ status = "ready"
    /\ \E count \in 0..(MaxBuilds - hist.builds) :
         \E r \in { build_vec(builder, output, count) } :
            /\ builder' = r.builder
            /\ status' = IF r.panic THEN "panicked" ELSE "ready"
            /\ result' = IF r.panic THEN [op |-> "build_vec", panic |-> TRUE]
                         ELSE [op |-> "build_vec", panic |-> FALSE, value |-> r.value]
            /\ used' = r.used
            /\ hist' = IF r.panic THEN Note("build_vec", count, builder)
                       ELSE [Note("build_vec", count, builder) EXCEPT !.builds = @ + count,
                                                                      !.built_since = @ + count]
    /\ UNCHANGED <<target>>
    /\ UNCHANGED genVars

NextGen == GetFields \/ GenerateOutputTokens \/ EntryPointOutput

Next ==
    \/ GetFields
    \/ GenerateOutputTokens
    \/ EntryPointOutput
    \/ New
    \/ Setter
    \/ WithIndex
    \/ Build
    \/ BuildVec

Spec == Init /\ [][Next]_vars

SpecGen == InitGen /\ [][NextGen]_vars

(***************************************************************************)
(* Vocabulary of the properties.                                           *)
(***************************************************************************)
\* the instances the last operation returned, in order
Produced ==
    IF status = "ready" /\ result.op \in {"build", "build_vec"} THEN result.value ELSE <<>>

\* a usize as a natural number with room for one carry
Wide(x) == x \o <<0>>

RECURSIVE Plus(_, _)
Plus(x, k) == IF k = 0 THEN x ELSE Plus(IncLimbs(x).val, k - 1)

BelowTen(i) == i[1] < 10 /\ \A k \in 2..Len(i) : i[k] = 0

\* n sequential build() calls from builder b
RECURSIVE SequentialBuilds(_, _, _)
SequentialBuilds(b, n, acc) ==
    IF n = 0 THEN [panic |-> FALSE, builder |-> b, value |-> acc]
    ELSE Let(build(b, output), LAMBDA r :
           IF r.panic THEN [panic |-> TRUE, builder |-> r.builder, value |-> acc]
           ELSE SequentialBuilds(r.builder, n - 1, Append(acc, r.value)))

NamedOf(s) == SelectSeq(s.fields, LAMBDA x : x.ident # NoIdent)
HasIgnoreMarker(x) == \E k \in 1..Len(x.attrs) : x.attrs[k] = IgnoreMarker
HasNoIgnoreMarker(x) == ~HasIgnoreMarker(x)
IdentsOf(fs) == [k \in 1..Len(fs) |-> fs[k].ident]
IdentifiersOf(xs) == [k \in 1..Len(xs) |-> xs[k].identifier]
Settled == pc \in {"tokens", "done", "aborted"}

(***************************************************************************)
(* C1                                                                      *)
(***************************************************************************)
\* C1 (as claimed): whatever index i the outer build() allocated, the nested
\* record's index-driven fields take the values for index 0.
C1_NestedStartsAtZero ==
    \A k \in 1..Len(Produced) :
        builder.slots["inner"].kind = "nested" =>
            /\ Produced[k]["inner"]["value"] = CastInt(Small(0), "u32")
            /\ Produced[k]["inner"]["label"] = "label0"

\* C1 (amended): the nested builder is fresh and seeded with the outer allocated
\* index i, so the nested record's index-driven fields, and those of the record
\* nested in it, take the values for index i.
C1_NestedSeededWithOuterIndex ==
    \A k \in 1..Len(Produced) :
        builder.slots["inner"].kind = "nested" =>
            /\ Produced[k]["inner"]["value"] = CastInt(used[k], "u32")
            /\ Produced[k]["inner"]["label"] = "label" \o Decimal(used[k])
            /\ Produced[k]["inner"]["leaf"]["n"] = CastInt(used[k], "u8")

\* C1 witness: an instance built at outer index 2 whose nested integer field is 2
C1_Witness ==
    /\ Len(Produced) > 0
    /\ builder.slots["inner"].kind = "nested"
    /\ used[Len(used)] = Small(2)
    /\ Produced[Len(used)]["inner"]["value"] = CastInt(Small(2), "u32")

(***************************************************************************)
(* C2                                                                      *)
(***************************************************************************)
\* C2: no build-time operation fails: no operation on a builder ends in a panic,
\* whatever counter value with_index set.
C2_NoBuildTimeFailure == status # "panicked"

(***************************************************************************)
(* C3                                                                      *)
(***************************************************************************)
\* C3: the counter equals the last explicitly set value (0 from the factory, n
\* from with_index(n)) plus the number of instances built since, and the
\* indices an operation hands out count up from the counter it started with.
C3_CounterIsLastSetPlusBuilds ==
    status = "ready" =>
        /\ Wide(builder.index) = Plus(Wide(hist.last_set), hist.built_since)
        /\ \A k \in 1..Len(used) : Wide(used[k]) = Plus(Wide(hist.pre.index), k - 1)
        /\ hist.op = "setter" => builder.index = hist.pre.index

(***************************************************************************)
(* C4                                                                      *)
(***************************************************************************)
\* C4: build_vec(n) returns exactly n instances, equal one by one to those of n
\* sequential build() calls from the same state, and leaves the builder as they
\* do, with the counter advanced by exactly n.
C4_BuildVecIsSequentialBuilds ==
    (status # "none" /\ hist.op = "build_vec") =>
        /\ status = "ready"
        /\ Len(result.value) = hist.arg
        /\ result.value = SequentialBuilds(hist.pre, hist.arg, <<>>).value
        /\ builder = SequentialBuilds(hist.pre, hist.arg, <<>>).builder
        /\ Wide(builder.index) = Plus(Wide(hist.pre.index), hist.arg)

(***************************************************************************)
(* C5                                                                      *)
(***************************************************************************)
\* C5: with_index(n) followed at once by build() hands index n to every
\* generator slot and leaves the counter at n + 1.
C5_WithIndexThenBuild ==
    (status # "none" /\ hist.op = "build" /\ hist.after_with_index) =>
        /\ status = "ready"
        /\ used = <<hist.last_set>>
        /\ \A id \in SetterIdents :
              result.value[1][id] = Apply(builder.slots[id], hist.last_set).value
        /\ Wide(builder.index) = Plus(Wide(hist.last_set), 1)

(***************************************************************************)
(* C6                                                                      *)
(***************************************************************************)
\* C6: a setter call on field F stores the given generator in F's slot and
\* leaves the counter and every other slot as they were; every instance built
\* afterwards has F computed by the generator last given for F, applied to the
\* index allocated for that instance (the one a default generator receives).
C6_SetterReplacesGenerator ==
    status # "none" =>
        /\ hist.op = "setter" =>
              /\ builder.slots[hist.arg] = hist.set_gens[hist.arg]
              /\ builder.index = hist.pre.index
              /\ \A id \in (DOMAIN builder.slots) \ {hist.arg} :
                    builder.slots[id] = hist.pre.slots[id]
        /\ \A k \in 1..Len(Produced) :
              /\ \A id \in SetterIdents :
                    hist.set_gens[id] # None =>
                        Produced[k][id] = UserFn(hist.set_gens[id].id, used[k])
              /\ hist.set_gens["name"] = None =>
                    Produced[k]["name"] = "name" \o Decimal(used[k])

\* C6 witness: name overridden twice, then an instance built at index 1 with the last generator
C6_Witness ==
    /\ Len(Produced) > 0
    /\ hist.set_count["name"] = 2
    /\ hist.set_gens["name"].id = "low_bit"
    /\ used[1] = Small(1)
    /\ Produced[1]["name"] = [user |-> "low_bit", bit |-> 1]

(***************************************************************************)
(* C7                                                                      *)
(***************************************************************************)
\* C7: the default generator of a char field yields the decimal digit of i for
\* i <= 9 and 'a' for every i >= 10.
C7_CharDefault ==
    \A k \in 1..Len(Produced) :
        builder.slots["id"].kind = "from_digit" =>
            Produced[k]["id"] =
                IF BelowTen(used[k]) THEN DigitChars[used[k][1] + 1] ELSE "a"

(***************************************************************************)
(* C8                                                                      *)
(***************************************************************************)
\* C8: the value given to the factory for an excluded field stays in its fixed
\* slot and is the value of that field in every instance the builder produces.
C8_FixedSlotCopied ==
    status # "none" =>
        \A id \in ParamIdents :
            /\ builder.slots[id] = hist.ctor_args[id]
            /\ \A k \in 1..Len(Produced) : Produced[k][id] = hist.ctor_args[id]

\* C8 witness: after a with_index and a setter, build_vec returns two instances carrying the tag
C8_Witness ==
    /\ Len(Produced) = 2
    /\ hist.calls = 2
    /\ hist.builds = 3
    /\ hist.ctor_args["tag"] = "other-tag"
    /\ Produced[2]["tag"] = "other-tag"
    /\ used[2] # Small(2)

(***************************************************************************)
(* C9                                                                      *)
(***************************************************************************)
\* C9 (as claimed): generation aborts with no builder definition if any field of
\* the record, named or not, has a type that is not a path; it completes if every
\* named field's type is a path.
C9_AnyFieldAborts ==
    Settled =>
        /\ (\E k \in 1..Len(item_struct.fields) : item_struct.fields[k].ty.shape # "Path")
              => (pc = "aborted" /\ output = None)
        /\ (\A k \in 1..Len(NamedOf(item_struct)) : NamedOf(item_struct)[k].ty.shape = "Path")
              => pc # "aborted"

\* C9 (amended): generation aborts with no builder definition, not even a partial
\* one, exactly if some named field (excluded or not) has a type that is not a
\* path; otherwise it completes and produces the builder.
C9_NamedFieldAborts ==
    /\ Settled =>
          ((\E k \in 1..Len(NamedOf(item_struct)) :
                NamedOf(item_struct)[k].ty.shape # "Path") <=> pc = "aborted")
    /\ pc = "aborted" => (output = None /\ partials = None)
    /\ pc = "done" => output # None

\* C9 witness: an abort caused by an excluded named field of a non-path type
C9_Witness ==
    /\ pc = "aborted"
    /\ Len(item_struct.fields) = 2
    /\ item_struct.fields[1].ty.shape = "Path"
    /\ item_struct.fields[2].ty.shape # "Path"
    /\ item_struct.fields[2].attrs = <<IgnoreMarker>>
    /\ item_struct.fields[2].ident # NoIdent

(***************************************************************************)
(* C10                                                                     *)
(***************************************************************************)
\* C10: in the produced definition every named field has exactly one slot, in
\* schema order; the slot is fixed, with a factory parameter and no setter, iff
\* the field carries #[tlayuda_ignore]; otherwise it is a generator slot with a
\* setter and no factory parameter; unnamed fields have no slot.
C10_OneSlotPerNamedField ==
    pc = "done" =>
        LET named == NamedOf(item_struct)
        IN /\ IdentifiersOf(output.field_declarations) = IdentsOf(named)
           /\ IdentifiersOf(output.field_builder_intializers) = IdentsOf(named)
           /\ \A k \in 1..Len(named) :
                 /\ output.field_declarations[k].slot =
                        IF HasIgnoreMarker(named[k]) THEN "fixed" ELSE "generator"
                 /\ output.field_builder_intializers[k].kind =
                        IF HasIgnoreMarker(named[k]) THEN "param" ELSE "closure"
           /\ IdentifiersOf(output.builder_parameters) =
                 IdentsOf(SelectSeq(named, HasIgnoreMarker))
           /\ output.ignored_fields = IdentsOf(SelectSeq(named, HasIgnoreMarker))
           /\ IdentifiersOf(output.field_setter_functions) =
                 IdentsOf(SelectSeq(named, HasNoIgnoreMarker))
           /\ output.fields = IdentsOf(SelectSeq(named, HasNoIgnoreMarker))

\* C10 witness: #[tlayuda_ignore(x)] leaves a generator slot, #[tlayuda_ignore] gives a fixed one
C10_Witness ==
    /\ pc = "done"
    /\ Len(item_struct.fields) = 2
    /\ item_struct.fields[1].attrs = <<IgnoreList>>
    /\ item_struct.fields[2].attrs = <<IgnoreMarker>>
    /\ output.field_declarations[1].slot = "generator"
    /\ output.field_declarations[2].slot = "fixed"
    /\ Len(output.builder_parameters) = 1

====
